---- MODULE Spec2Model ----
(***************************************************************************)
(* State-machine model of ecoblock-bridge (src/src/lib.rs): the keypair    *)
(* file lifecycle (generate_keypair .. node_is_initialized), the           *)
(* EcoBlockContext ingestion pipeline and the process-wide CONTEXT mutex.  *)
(*                                                                         *)
(* The four collaborators (CryptoKeypair, Tangle/TangleBlock, GossipEngine,*)
(* TopologyGraph) live in other crates; they are modelled from the         *)
(* interface the bridge consumes.  What the bridge cannot know about them  *)
(* is left open: the ledger's verdict on an insert is a nondeterministic   *)
(* choice, and whether the mesh stores an edge in one or both directions   *)
(* is fixed, either way, in the initial state.                             *)
(***************************************************************************)
EXTENDS Integers, Sequences, FiniteSets, TLC

\* ------------------------------------------------------------------ bounds
NumThreads == 2      \* threads of the embedding application
MaxCalls == 2        \* calls made in one behaviour, over all threads
MaxKeys == 3         \* keypairs CryptoKeypair::generate() hands out

Threads == 1..NumThreads

\* ------------------------------------------------------- inputs of the calls
\* A node directory that exists; a path whose directory does not; and a
\* directory whose files are created without read permission, so that a file
\* written there exists but cannot be read back.
NodeDir == "node"
MissingDir == "nodir"
SealedDir == "sealed"
Paths == {NodeDir, MissingDir, SealedDir}
DirExists(path) == path # MissingDir
Readable(path) == path # SealedDir

PeerIds == {"A", "B", "C"}
Connections == {<<"A", "B">>}     \* the (from, to) passed to add_peer_connection
Weights == {0 - 1, 2}          \* any f32 is passed through: a negative and a positive one

\* Byte payloads: <<m, v>> with marker m in 1..2 is one of two JSON encodings
\* (key order, whitespace) of the SensorData value v; anything else is malformed.
Encodings == {1, 2}
SensorValues == {1}
ValidPayloads == {<<m, v>> : m \in Encodings, v \in SensorValues}
MalformedPayloads == {<<0, 1>>}
Payloads == ValidPayloads \cup MalformedPayloads
\* the parents passed to create_block: none, or one id (no entry's id)
ParentChoices == {<<>>, <<"p">>}

\* ------------------------------------------------- SensorData (serde_json)
Deserialize(data) ==
    IF Len(data) = 2 /\ data[1] \in Encodings /\ data[2] >= 1
    THEN [ok |-> TRUE, value |-> data[2]]
    ELSE [ok |-> FALSE, value |-> 0]

\* ---------------------------------------------------------- CryptoKeypair
NoKeypair == [secret |-> 0, public |-> 0]
PublicOf(secret) == 16 * secret + 1
KeypairOf(secret) == [secret |-> secret, public |-> PublicOf(secret)]
ToBytes(kp) == <<kp.secret, kp.public>>
FromBytes(bytes) ==
    IF Len(bytes) = 2 /\ bytes[1] >= 1 /\ bytes[2] = PublicOf(bytes[1])
    THEN [ok |-> TRUE, kp |-> KeypairOf(bytes[1])]
    ELSE [ok |-> FALSE, kp |-> NoKeypair]
\* hex of the one public-key byte: two nibbles
PublicKeyHex(kp) == <<kp.public \div 16, kp.public % 16>>

\* ------------------------------------------------------ the keypair file
NoFile == [exists |-> FALSE, bytes |-> <<>>]
FileOf(bytes) == [exists |-> TRUE, bytes |-> bytes]
GarbageFile == FileOf(<<0>>)

\* (faulty variant: an existing file is not overwritten)
FsWriteNew(fs, path, bytes) ==
    IF DirExists(path) /\ ~fs[path].exists
    THEN [ok |-> TRUE, fs |-> [fs EXCEPT ![path] = FileOf(bytes)]]
    ELSE [ok |-> FALSE, fs |-> fs]
\* fs::write(keypair_path(path), bytes): creates the file or replaces its
\* content; fails when the directory is missing
FsWrite(fs, path, bytes) ==
    IF DirExists(path) THEN [ok |-> TRUE, fs |-> [fs EXCEPT ![path] = FileOf(bytes)]]
    ELSE [ok |-> FALSE, fs |-> fs]
\* fs::read(keypair_path(path))
FsRead(fs, path) ==
    IF fs[path].exists /\ Readable(path) THEN [ok |-> TRUE, bytes |-> fs[path].bytes]
    ELSE [ok |-> FALSE, bytes |-> <<>>]
\* fs::remove_file(keypair_path(path)), its result dropped
FsRemove(fs, path) == [fs EXCEPT ![path] = NoFile]

\* ------------------------------------------------------- returned values
\* One record shape for every function's result: kind says which fields count.
Ret(kind, txt, hex, num, flag, list) ==
    [kind |-> kind, txt |-> txt, hex |-> hex, num |-> num, flag |-> flag, list |-> list]
NoRet == Ret("none", "", <<>>, 0, FALSE, <<>>)
OkHex(hex) == Ret("ok", "", hex, 0, FALSE, <<>>)
OkUnit == Ret("ok", "", <<>>, 0, FALSE, <<>>)
OkBool(b) == Ret("ok", "", <<>>, 0, b, <<>>)
Err(txt) == Ret("err", txt, <<>>, 0, FALSE, <<>>)
\* create_block returns a bare String: the block id, or the error text
StringId(id) == Ret("string", "", id, 0, FALSE, <<>>)
StringError(txt) == Ret("string", txt, <<>>, 0, FALSE, <<>>)
Size(n) == Ret("usize", "", <<>>, n, FALSE, <<>>)
Strings(list) == Ret("vec", "", <<>>, 0, FALSE, list)

IoError == "IO error"
CryptoError == "Crypto error"
AlreadyInitialized == "AlreadyInitialized"
DeserError == "Erreur de deserialisation SensorData"

\* (faulty variant: a failed read is reported as a crypto error)
load_keypair_masked(fs, path) ==
    LET rd == FsRead(fs, path)
        parsed == FromBytes(rd.bytes)
    IN IF ~rd.ok \/ ~parsed.ok THEN [ok |-> FALSE, err |-> Err(CryptoError), kp |-> NoKeypair]
       ELSE [ok |-> TRUE, err |-> NoRet, kp |-> parsed.kp]
load_keypair(fs, path) ==
    LET rd == FsRead(fs, path)
        parsed == FromBytes(rd.bytes)
    IN IF ~rd.ok THEN [ok |-> FALSE, err |-> Err(IoError), kp |-> NoKeypair]
       ELSE IF ~parsed.ok THEN [ok |-> FALSE, err |-> Err(CryptoError), kp |-> NoKeypair]
       ELSE [ok |-> TRUE, err |-> NoRet, kp |-> parsed.kp]

\* get_public_key and get_node_id, each from its own lines of the source
get_public_key(fs, path) ==
    LET keypair == load_keypair(fs, path)
    IN IF keypair.ok THEN OkHex(PublicKeyHex(keypair.kp)) ELSE keypair.err
get_node_id(fs, path) ==
    LET keypair == load_keypair(fs, path)
        node_id == PublicKeyHex(keypair.kp)
    IN IF keypair.ok THEN OkHex(node_id) ELSE keypair.err
node_is_initialized(fs, path) == OkBool(fs[path].exists)

\* ------------------------------------------------- TangleBlock and Tangle
NoBlock == [id |-> <<>>, data |-> 0, parents |-> <<>>, signer |-> 0]
\* TangleBlock::new(block_data, &keypair): the id is derived from the content
\* and the signer, the same inputs giving the same id
TangleBlockNew(value, parents, kp) ==
    [id |-> <<value, Len(parents), kp.public>>, data |-> value,
     parents |-> parents, signer |-> kp.public]
TangleNew == {}
TangleLen(tangle) == Cardinality(tangle)
\* Tangle::insert: a store keyed by id; the ledger's verdict is its own
TangleInsert(tangle, block, accept) == IF accept THEN tangle \cup {block} ELSE tangle

\* ------------------------------------------------------------ GossipEngine
GossipNew == <<>>
PropagateBlock(gossip, block) == Append(gossip, block)

\* ----------------------------------------------------------- TopologyGraph
TopologyNew == [nodes |-> {}, adj |-> [p \in PeerIds |-> <<>>]]
Upsert(list, id, weight) ==
    IF \E i \in 1..Len(list) : list[i][1] = id
    THEN [i \in 1..Len(list) |-> IF list[i][1] = id THEN <<id, weight>> ELSE list[i]]
    ELSE Append(list, <<id, weight>>)
AddNode(m, id) == [m EXCEPT !.nodes = @ \cup {id}]
AddConnection(m, from, to, weight, both) ==
    LET one == [m EXCEPT !.nodes = @ \cup {from, to},
                         !.adj[from] = Upsert(@, to, weight)]
    IN IF both THEN [one EXCEPT !.adj[to] = Upsert(@, from, weight)] ELSE one
GetNeighbors(m, id) ==
    IF id \in m.nodes THEN [some |-> TRUE, list |-> m.adj[id]]
    ELSE [some |-> FALSE, list |-> <<>>]

\* ---------------------------------------------------------- EcoBlockContext
NoContext == [tangle |-> TangleNew, keypair |-> NoKeypair,
              gossip_engine |-> GossipNew, mesh |-> TopologyNew]
EcoBlockContextNew(secret) ==
    [tangle |-> TangleNew, keypair |-> KeypairOf(secret),
     gossip_engine |-> GossipNew, mesh |-> TopologyNew]
tangle_size(c) == Size(TangleLen(c.tangle))
list_peers(c, peer_id) ==
    LET got == GetNeighbors(c.mesh, peer_id)
    IN IF got.some THEN Strings([i \in 1..Len(got.list) |-> got.list[i][1]])
       ELSE Strings(<<>>)


\* ------------------------------------------------------------------ calls
NoCall == [op |-> "none", data |-> <<>>, parents |-> <<>>, path |-> "",
           from |-> "", to |-> "", weight |-> 0]
CallOn(op, path) == [NoCall EXCEPT !.op = op, !.path = path]
SingletonCalls ==
    {[NoCall EXCEPT !.op = "create_block", !.data = d, !.parents = ps] :
        d \in Payloads, ps \in ParentChoices}
    \cup {[NoCall EXCEPT !.op = "get_tangle_size"]}
    \cup {[NoCall EXCEPT !.op = "add_peer_connection", !.from = e[1], !.to = e[2], !.weight = w] :
        e \in Connections, w \in Weights}
    \cup {[NoCall EXCEPT !.op = "list_peers", !.from = p] : p \in PeerIds}
PathOps == {"generate_keypair", "get_public_key", "get_node_id", "initialize_mesh",
            "create_local_node", "reset_node", "node_is_initialized"}
BootstrapCalls ==
    {CallOn(op, path) : op \in PathOps, path \in Paths}
    \cup {[NoCall EXCEPT !.op = "initialize_tangle"]}
\* the calls that may write or delete the keypair file
WritingOps == {"generate_keypair", "create_local_node", "reset_node"}

FirstPc(op) ==
    CASE op = "generate_keypair" -> "gk_write"
      [] op = "get_public_key" -> "gpk"
      [] op = "get_node_id" -> "gni"
      [] op = "initialize_tangle" -> "it"
      [] op = "initialize_mesh" -> "im"
      [] op = "create_local_node" -> "cln_check"
      [] op = "reset_node" -> "rn"
      [] op = "node_is_initialized" -> "nii"
      [] OTHER -> "lock"
BodyPc(op) ==
    CASE op = "create_block" -> "cb_deser"
      [] op = "get_tangle_size" -> "ts"
      [] op = "add_peer_connection" -> "apc"
      [] OTHER -> "lp"

\* ------------------------------------------------------------------ state
VARIABLES
    file,       \* per path: the keypair file <path>/node_keypair.bin
    nextKey,    \* the next secret CryptoKeypair::generate() draws (never one drawn before)
    bothWays,   \* whether the mesh stores a connection in both directions
    ctxInit,    \* whether lazy_static has constructed CONTEXT
    ctx,        \* the EcoBlockContext inside CONTEXT
    lock,       \* the threads holding CONTEXT's MutexGuard
    pc,         \* per thread: where its call stands
    call,       \* per thread: the call in progress
    loc,        \* per thread: the locals of the call in progress
    ret,        \* per thread: the value the call returns
    pre,        \* per thread: what the caller could observe when it made the call
    ncalls,     \* calls made so far
    prev,       \* per path: the latest completed call that may write the keypair file
    trace       \* ledger inserts, propagations and mesh mutations, in the order they happened

vars == <<file, nextKey, bothWays, ctxInit, ctx, lock, pc, call, loc, ret, pre, ncalls,
          prev, trace>>

NoLoc == [block |-> NoBlock, tangle |-> TangleNew, accept |-> FALSE, kp |-> NoKeypair]
NoPrev == [op |-> "none", ret |-> NoRet, file |-> NoFile, solo |-> FALSE]
NoPre == [ctx |-> NoContext, file |-> [p \in Paths |-> NoFile], alone |-> FALSE, n |-> 0,
          prev |-> [p \in Paths |-> NoPrev], events |-> 0]

Init ==
    /\ file \in {[p \in Paths |-> IF p = NodeDir THEN f ELSE NoFile] : f \in {NoFile, GarbageFile}}
    /\ nextKey = 1
    /\ bothWays \in BOOLEAN
    /\ ctxInit = FALSE
    /\ ctx = NoContext
    /\ lock = {}
    /\ pc = [t \in Threads |-> "idle"]
    /\ call = [t \in Threads |-> NoCall]
    /\ loc = [t \in Threads |-> NoLoc]
    /\ ret = [t \in Threads |-> NoRet]
    /\ pre = [t \in Threads |-> NoPre]
    /\ ncalls = 0
    /\ prev = [p \in Paths |-> NoPrev]
    /\ trace = <<>>

\* A thread is at rest before its first call ("idle") and once its call has
\* returned ("done", the returned value in ret).
AtRest(t) == pc[t] \in {"idle", "done"}
\* The call of thread t overlapped no other call: every other thread was at
\* rest when it was made and no call has been made since.
Solo(t) == pre[t].alone /\ ncalls = pre[t].n

Goto(t, where) == pc' = [pc EXCEPT ![t] = where]

\* A thread of the embedding application calls one of the exposed functions.
\* (The threads are interchangeable; they are numbered in the order of their
\* first calls.)
Invoke(t, c) ==
    /\ AtRest(t)
    /\ \A u \in Threads : u < t => pc[u] # "idle"
    /\ ncalls < MaxCalls
    /\ ncalls' = ncalls + 1
    /\ call' = [call EXCEPT ![t] = c]
    /\ loc' = [loc EXCEPT ![t] = NoLoc]
    /\ ret' = [ret EXCEPT ![t] = NoRet]
    /\ pre' = [pre EXCEPT ![t] = [ctx |-> ctx, file |-> file,
                                  alone |-> \A u \in Threads \ {t} : AtRest(u),
                                  n |-> ncalls + 1, prev |-> prev,
                                  events |-> Len(trace)]]
    /\ Goto(t, FirstPc(c.op))
    /\ UNCHANGED <<file, bothWays, lock, prev, trace>>
InvokeBootstrap(t) ==
    /\ \E c \in BootstrapCalls : Invoke(t, c)
    /\ UNCHANGED <<nextKey, ctxInit, ctx>>

\* The call's last statement has produced r.
Finish(t, r) ==
    /\ ret' = [ret EXCEPT ![t] = r]
    /\ Goto(t, "done")
    /\ prev' = IF call[t].op \in WritingOps
               THEN [prev EXCEPT ![call[t].path] =
                        [op |-> call[t].op, ret |-> r, file |-> file'[call[t].path],
                         solo |-> Solo(t)]]
               ELSE prev

\* ------------------------------------------------- the singleton and its lock
\* What trace records: an insert (the block's id, the payload it came from,
\* the ledger's verdict), a propagation (the block's id), a mesh mutation
\* (the connection)
InsertEvent(t, id, data, accept) ==
    [t |-> t, ev |-> "insert", id |-> id, data |-> data, accept |-> accept,
     from |-> "", to |-> ""]
PropagateEvent(t, id) ==
    [t |-> t, ev |-> "propagate", id |-> id, data |-> <<>>, accept |-> TRUE,
     from |-> "", to |-> ""]
MeshEvent(t, from, to) ==
    [t |-> t, ev |-> "mesh", id |-> <<>>, data |-> <<>>, accept |-> TRUE,
     from |-> from, to |-> to]

\* lazy_static: the first dereference of CONTEXT runs EcoBlockContext::new(),
\* once; a thread that dereferences meanwhile waits for it.
\* (faulty variant: every dereference constructs a context)
DerefAgain ==
    /\ nextKey <= MaxKeys
    /\ ctxInit' = TRUE
    /\ ctx' = EcoBlockContextNew(nextKey)
    /\ nextKey' = nextKey + 1
Deref ==
    IF ctxInit
    THEN UNCHANGED <<ctxInit, ctx, nextKey>>
    ELSE /\ nextKey <= MaxKeys
         /\ ctxInit' = TRUE
         /\ ctx' = EcoBlockContextNew(nextKey)
         /\ nextKey' = nextKey + 1

\* A thread calls one of the four wrappers: it dereferences CONTEXT, then
\* asks for the lock.
InvokeSingleton(t) ==
    /\ \E c \in SingletonCalls : Invoke(t, c)
    /\ Deref

\* Mutex::lock(): blocks while another thread holds the guard.  No statement
\* run under the guard panics, so the mutex is never poisoned and unwrap()
\* always yields the guard.
\* (faulty variant: lock() hands out the guard while it is held)
MutexIgnored == TRUE
MutexFree == lock = {}
Lock(t) ==
    /\ pc[t] = "lock"
    /\ MutexFree
    /\ lock' = lock \cup {t}
    /\ Goto(t, BodyPc(call[t].op))
    /\ UNCHANGED <<file, nextKey, bothWays, ctxInit, ctx, call, loc, ret, pre, ncalls,
                   prev, trace>>

\* The method has returned r: the guard, a temporary of the wrapper's one
\* statement, is dropped and the wrapper returns r.
\* (faulty variant: the guard outlives the call)
UnlockLeaked(t) == lock' = lock
Unlock(t) == lock' = lock \ {t}
\* (faulty variant: the wrapper returns with the guard still held)
ReturnHolding(t, r) ==
    /\ ret' = [ret EXCEPT ![t] = r]
    /\ UNCHANGED lock
    /\ Goto(t, "done")
ReturnUnlocked(t, r) ==
    /\ ret' = [ret EXCEPT ![t] = r]
    /\ Unlock(t)
    /\ Goto(t, "done")

\* create_block, lines 96-104: deserialize; on failure return the error text,
\* else package the data and construct the signed block.
CbSigner(c) == c.keypair
\* (faulty variant: the Err arm is never taken)
DeserFailedNever(sensor_data) == FALSE
DeserFailed(sensor_data) == ~sensor_data.ok
CbDeserialize(t) ==
    /\ pc[t] = "cb_deser"
    /\ LET sensor_data == Deserialize(call[t].data)
       IN IF DeserFailed(sensor_data)
          THEN /\ ReturnUnlocked(t, StringError(DeserError))
               /\ UNCHANGED loc
          ELSE /\ loc' = [loc EXCEPT ![t].block =
                            TangleBlockNew(sensor_data.value, call[t].parents, CbSigner(ctx))]
               /\ Goto(t, "cb_insert")
               /\ UNCHANGED <<ret, lock>>
    /\ UNCHANGED <<file, nextKey, bothWays, ctxInit, ctx, call, pre, ncalls, prev, trace>>

\* line 106, self.tangle.insert(block.clone()).ok(): the ledger reads its
\* entries and gives its verdict ...
CbInsert(t) ==
    /\ pc[t] = "cb_insert"
    /\ \E accept \in BOOLEAN :
          loc' = [loc EXCEPT ![t].tangle = ctx.tangle, ![t].accept = accept]
    /\ Goto(t, "cb_store")
    /\ UNCHANGED <<file, nextKey, bothWays, ctxInit, ctx, lock, call, ret, pre, ncalls,
                   prev, trace>>

\* ... and stores the entries with the block added, if it accepted it; the
\* Result is dropped.
\* (faulty variant: the insert is left out)
InsertDropped(t) == loc[t].tangle
\* (faulty variant: the ledger is replaced by the block)
InsertReplaces(t) == IF loc[t].accept THEN {loc[t].block} ELSE loc[t].tangle
InsertResult(t) == TangleInsert(loc[t].tangle, loc[t].block, loc[t].accept)
CbStore(t) ==
    /\ pc[t] = "cb_store"
    /\ ctx' = [ctx EXCEPT !.tangle = InsertResult(t)]
    /\ trace' = Append(trace, InsertEvent(t, loc[t].block.id, call[t].data, loc[t].accept))
    /\ Goto(t, "cb_propagate")
    /\ UNCHANGED <<file, nextKey, bothWays, ctxInit, lock, call, loc, ret, pre, ncalls, prev>>

\* lines 107-108: propagate the block, return its id.
\* (faulty variant: a rejected insert is reported to the caller)
CbReturnedSurfaced(t) ==
    IF loc[t].accept THEN StringId(loc[t].block.id) ELSE StringError("insert failed")
CbReturned(t) == StringId(loc[t].block.id)
CbPropagate(t) ==
    /\ pc[t] = "cb_propagate"
    /\ ctx' = [ctx EXCEPT !.gossip_engine = PropagateBlock(@, loc[t].block)]
    /\ trace' = Append(trace, PropagateEvent(t, loc[t].block.id))
    /\ ReturnUnlocked(t, CbReturned(t))
    /\ UNCHANGED <<file, nextKey, bothWays, ctxInit, call, loc, pre, ncalls, prev>>

TangleSize(t) ==
    /\ pc[t] = "ts"
    /\ ReturnUnlocked(t, tangle_size(ctx))
    /\ UNCHANGED <<file, nextKey, bothWays, ctxInit, ctx, call, loc, pre, ncalls, prev, trace>>

\* (faulty variant: from and to are swapped)
add_peer_connection_swapped(c, from, to, weight) ==
    [c EXCEPT !.mesh = AddConnection(@, to, from, weight, bothWays)]
\* (faulty variant: the ledger is cleared as well)
add_peer_connection_wiping(c, from, to, weight) ==
    [c EXCEPT !.mesh = AddConnection(@, from, to, weight, bothWays), !.tangle = TangleNew]
add_peer_connection(c, from, to, weight) ==
    [c EXCEPT !.mesh = AddConnection(@, from, to, weight, bothWays)]
AddPeerConnection(t) ==
    /\ pc[t] = "apc"
    /\ ctx' = add_peer_connection(ctx, call[t].from, call[t].to, call[t].weight)
    /\ trace' = Append(trace, MeshEvent(t, call[t].from, call[t].to))
    /\ ReturnUnlocked(t, OkUnit)
    /\ UNCHANGED <<file, nextKey, bothWays, ctxInit, call, loc, pre, ncalls, prev>>

ListPeers(t) ==
    /\ pc[t] = "lp"
    /\ ReturnUnlocked(t, list_peers(ctx, call[t].from))
    /\ UNCHANGED <<file, nextKey, bothWays, ctxInit, ctx, call, loc, pre, ncalls, prev, trace>>

SingletonStep(t) ==
    \/ InvokeSingleton(t)
    \/ Lock(t)
    \/ CbDeserialize(t)
    \/ CbInsert(t)
    \/ CbStore(t)
    \/ CbPropagate(t)
    \/ TangleSize(t)
    \/ AddPeerConnection(t)
    \/ ListPeers(t)

NextSingleton == \E t \in Threads : SingletonStep(t)
\* the singleton's calls alone; they never touch the keypair file
InitSingleton == Init /\ file[NodeDir] = NoFile
SpecSingleton == InitSingleton /\ [][NextSingleton]_vars

\* Scheduling: a thread inside a method keeps running (the collaborators
\* return), and a thread waiting in lock() gets the mutex if it is free again
\* and again (fair lock scheduling).  Nothing obliges the application to call.
BodyStep(t) ==
    \/ CbDeserialize(t)
    \/ CbInsert(t)
    \/ CbStore(t)
    \/ CbPropagate(t)
    \/ TangleSize(t)
    \/ AddPeerConnection(t)
    \/ ListPeers(t)
FairSingleton == \A t \in Threads : SF_vars(Lock(t)) /\ WF_vars(BodyStep(t))
SpecSingletonFair == SpecSingleton /\ FairSingleton


\* ------------------------------------------------- bootstrap: the keypair file
\* generate_keypair, lines 25-28: generate, serialize, write.
\* (faulty variant: the two halves are written in the wrong order)
GeneratedBytesSwapped(kp) == <<kp.public, kp.secret>>
GeneratedBytes(kp) == ToBytes(kp)
GkWrite(t) ==
    /\ pc[t] = "gk_write"
    /\ nextKey <= MaxKeys
    /\ nextKey' = nextKey + 1
    /\ LET keypair == KeypairOf(nextKey)
           written == FsWrite(file, call[t].path, GeneratedBytes(keypair))
       IN /\ file' = written.fs
          /\ IF written.ok
             THEN /\ loc' = [loc EXCEPT ![t].kp = keypair]
                  /\ Goto(t, "gk_read")
                  /\ UNCHANGED <<ret, prev>>
             ELSE /\ Finish(t, Err(IoError))
                  /\ UNCHANGED loc
    /\ UNCHANGED <<bothWays, ctxInit, ctx, lock, call, pre, ncalls, trace>>

\* lines 29-32: read the file back (for the log), return the generated key's
\* hex; inside create_local_node, go on to line 63.
GkReturned(kp) == OkHex(PublicKeyHex(kp))
GkRead(t) ==
    /\ pc[t] = "gk_read"
    /\ UNCHANGED file
    /\ IF ~FsRead(file, call[t].path).ok
       THEN Finish(t, Err(IoError))
       ELSE IF call[t].op = "generate_keypair"
            THEN Finish(t, GkReturned(loc[t].kp))
            ELSE Goto(t, "cln_mesh") /\ UNCHANGED <<ret, prev>>
    /\ UNCHANGED <<nextKey, bothWays, ctxInit, ctx, lock, call, loc, pre, ncalls, trace>>

GetPublicKey(t) ==
    /\ pc[t] = "gpk"
    /\ UNCHANGED file
    /\ Finish(t, get_public_key(file, call[t].path))
    /\ UNCHANGED <<nextKey, bothWays, ctxInit, ctx, lock, call, loc, pre, ncalls, trace>>

GetNodeId(t) ==
    /\ pc[t] = "gni"
    /\ UNCHANGED file
    /\ Finish(t, get_node_id(file, call[t].path))
    /\ UNCHANGED <<nextKey, bothWays, ctxInit, ctx, lock, call, loc, pre, ncalls, trace>>

\* initialize_tangle: a Tangle is constructed and dropped.
InitializeTangle(t) ==
    /\ pc[t] = "it"
    /\ UNCHANGED file
    /\ Finish(t, OkUnit)
    /\ UNCHANGED <<nextKey, bothWays, ctxInit, ctx, lock, call, loc, pre, ncalls, trace>>

\* initialize_mesh: the node id is read; the mesh it is added to is a local
\* that is dropped.
initialize_mesh(fs, path) ==
    LET node_id == get_node_id(fs, path)
    IN IF node_id.kind = "ok" THEN OkUnit ELSE node_id
InitializeMesh(t) ==
    /\ pc[t] = "im"
    /\ UNCHANGED file
    /\ Finish(t, initialize_mesh(file, call[t].path))
    /\ UNCHANGED <<nextKey, bothWays, ctxInit, ctx, lock, call, loc, pre, ncalls, trace>>

\* create_local_node, lines 59-61: the guard.
\* (faulty variant: no guard)
ClnGuardOff(fs, path) == FALSE
ClnGuard(fs, path) == node_is_initialized(fs, path).flag
ClnCheck(t) ==
    /\ pc[t] = "cln_check"
    /\ UNCHANGED file
    /\ IF ClnGuard(file, call[t].path)
       THEN Finish(t, Err(AlreadyInitialized))
       ELSE Goto(t, "gk_write") /\ UNCHANGED <<ret, prev>>
    /\ UNCHANGED <<nextKey, bothWays, ctxInit, ctx, lock, call, loc, pre, ncalls, trace>>

\* lines 63-64: initialize_tangle()?; initialize_mesh(path)?
ClnMesh(t) ==
    /\ pc[t] = "cln_mesh"
    /\ UNCHANGED file
    /\ LET r == initialize_mesh(file, call[t].path)
       IN IF r.kind = "err"
          THEN Finish(t, r)
          ELSE Goto(t, "cln_id") /\ UNCHANGED <<ret, prev>>
    /\ UNCHANGED <<nextKey, bothWays, ctxInit, ctx, lock, call, loc, pre, ncalls, trace>>

\* line 65: get_node_id(path)
ClnId(t) ==
    /\ pc[t] = "cln_id"
    /\ UNCHANGED file
    /\ Finish(t, get_node_id(file, call[t].path))
    /\ UNCHANGED <<nextKey, bothWays, ctxInit, ctx, lock, call, loc, pre, ncalls, trace>>

\* (faulty variant: nothing is removed)
reset_node_kept(fs, path) == fs
reset_node(fs, path) == FsRemove(fs, path)
\* line 70: Ok(()), whatever remove_file returned
\* (faulty variant: the error of remove_file is returned)
ResetResultStrict(fs, path) == IF fs[path].exists THEN OkUnit ELSE Err(IoError)
ResetResult(fs, path) == OkUnit
ResetNode(t) ==
    /\ pc[t] = "rn"
    /\ file' = reset_node(file, call[t].path)
    /\ Finish(t, ResetResult(file, call[t].path))
    /\ UNCHANGED <<nextKey, bothWays, ctxInit, ctx, lock, call, loc, pre, ncalls, trace>>

NodeIsInitialized(t) ==
    /\ pc[t] = "nii"
    /\ UNCHANGED file
    /\ Finish(t, node_is_initialized(file, call[t].path))
    /\ UNCHANGED <<nextKey, bothWays, ctxInit, ctx, lock, call, loc, pre, ncalls, trace>>

BootstrapStep(t) ==
    \/ InvokeBootstrap(t)
    \/ GkWrite(t)
    \/ GkRead(t)
    \/ GetPublicKey(t)
    \/ GetNodeId(t)
    \/ InitializeTangle(t)
    \/ InitializeMesh(t)
    \/ ClnCheck(t)
    \/ ClnMesh(t)
    \/ ClnId(t)
    \/ ResetNode(t)
    \/ NodeIsInitialized(t)

NextBootstrap == \E t \in Threads : BootstrapStep(t)
\* the bootstrap calls alone; they never touch CONTEXT
InitBootstrap == Init /\ bothWays = FALSE
SpecBootstrap == InitBootstrap /\ [][NextBootstrap]_vars

Next == \E t \in Threads : SingletonStep(t) \/ BootstrapStep(t)
Spec == Init /\ [][Next]_vars


\* ========================================================== properties
Done(t, op) == pc[t] = "done" /\ call[t].op = op
AllAtRest == \A t \in Threads : AtRest(t)
ValidPayload(data) == Deserialize(data).ok
IsIdString(r) == r.kind = "string" /\ r.txt = "" /\ r.hex # <<>>
Inserts == {i \in 1..Len(trace) : trace[i].ev = "insert"}
Range(seq) == {seq[i] : i \in 1..Len(seq)}

\* C1 (as claimed): a create_block call with a valid payload that overlapped
\* no other call returns a non-empty id, and the ledger holds exactly one
\* entry more than when the call was made.
C1_AlwaysOneMore ==
    \A t \in Threads :
        Done(t, "create_block") /\ ValidPayload(call[t].data) /\ Solo(t)
        => /\ IsIdString(ret[t])
           /\ TangleLen(ctx.tangle) = TangleLen(pre[t].ctx.tangle) + 1

\* C1 (amended): such a call returns a non-empty id, and the ledger holds one
\* entry more when its insert added the block (the ledger accepted it and held
\* no entry with that id), and is unchanged when it did not.
C1_OneMoreIfInserted ==
    \A t \in Threads :
        Done(t, "create_block") /\ ValidPayload(call[t].data) /\ Solo(t)
        => /\ IsIdString(ret[t])
           /\ ret[t].hex = loc[t].block.id
           /\ TangleLen(ctx.tangle) =
                 TangleLen(pre[t].ctx.tangle)
                 + (IF loc[t].accept /\ loc[t].block \notin pre[t].ctx.tangle THEN 1 ELSE 0)
C1_Witness ==
    \E t \in Threads :
        /\ Done(t, "create_block") /\ ValidPayload(call[t].data) /\ Solo(t)
        /\ call[t].parents # <<>>
        /\ loc[t].accept
        /\ TangleLen(pre[t].ctx.tangle) = 1
        /\ TangleLen(ctx.tangle) = 2

\* C2: a create_block call with a malformed payload (overlapping no other
\* call) returns the deserialization error text and leaves the ledger, the
\* transport and the topology as they were: no block is constructed, nothing
\* is inserted, propagated or recorded.
C2_MalformedNoEffect ==
    \A t \in Threads :
        Done(t, "create_block") /\ ~ValidPayload(call[t].data) /\ Solo(t)
        => /\ ret[t] = StringError(DeserError)
           /\ loc[t].block = NoBlock
           /\ ctx.tangle = pre[t].ctx.tangle
           /\ TangleLen(ctx.tangle) = TangleLen(pre[t].ctx.tangle)
           /\ ctx.gossip_engine = pre[t].ctx.gossip_engine
           /\ ctx.mesh = pre[t].ctx.mesh
           /\ Len(trace) = pre[t].events
C2_Witness ==
    \E t \in Threads :
        /\ Done(t, "create_block") /\ ~ValidPayload(call[t].data) /\ Solo(t)
        /\ ret[t] = StringError(DeserError)
        /\ TangleLen(pre[t].ctx.tangle) = 1
        /\ TangleLen(ctx.tangle) = 1

\* C3 (as claimed): once every call has returned, if the create_block calls
\* with valid payloads had pairwise distinct payloads, the ledger holds as many
\* entries as there were such calls.
C3_SizeIsCallCount ==
    AllAtRest /\ (\A i, j \in Inserts : i # j => trace[i].data # trace[j].data)
    => TangleLen(ctx.tangle) = Cardinality(Inserts)

\* C3 (amended): once every call has returned, the ledger holds exactly the
\* blocks whose insert it accepted, each once: as many entries as there are
\* distinct accepted ids, under every interleaving.
AcceptedIds == {trace[i].id : i \in {j \in Inserts : trace[j].accept}}
C3_SizeIsAcceptedCount ==
    AllAtRest
    => /\ {b.id : b \in ctx.tangle} = AcceptedIds
       /\ TangleLen(ctx.tangle) = Cardinality(AcceptedIds)
C3_Witness ==
    /\ AllAtRest
    /\ \A t \in Threads : Done(t, "create_block") /\ ValidPayload(call[t].data)
    /\ \E t \in Threads : ~pre[t].alone
    /\ TangleLen(ctx.tangle) = NumThreads

\* C4: in the order in which they happened, every ledger insert is directly
\* followed by the propagation of the same block by the same call (or that
\* call is about to propagate), and every propagation directly follows its
\* call's insert: no other call's insert, propagation or mesh mutation falls
\* between the two, so the events are those of the calls run one after another.
C4_InsertThenPropagate ==
    \A i \in 1..Len(trace) :
        /\ trace[i].ev = "insert" =>
              IF i = Len(trace)
              THEN pc[trace[i].t] = "cb_propagate"
              ELSE /\ trace[i + 1].ev = "propagate"
                   /\ trace[i + 1].t = trace[i].t
                   /\ trace[i + 1].id = trace[i].id
        /\ trace[i].ev = "propagate" =>
              /\ i > 1
              /\ trace[i - 1].ev = "insert"
              /\ trace[i - 1].t = trace[i].t
C4_Witness ==
    /\ Len(trace) = 4
    /\ trace[1].t # trace[3].t
    /\ \E t \in Threads : pc[t] = "done" /\ ~pre[t].alone


\* The latest completed call that may write the keypair file of the call's
\* path, as thread t found it when it made its call; Sequential(t): that call
\* and t's call each overlapped no other call, so t's call directly followed it.
Before(t) == pre[t].prev[call[t].path]
Sequential(t) == Solo(t) /\ Before(t).solo
IsRead(op) == op \in {"get_public_key", "get_node_id"}

\* C5: on a node directory, a create_local_node call that directly follows
\* another create_local_node call (no reset_node, no other writer in between)
\* returns the error AlreadyInitialized, and the keypair file is what it was
\* after the first call: the second call writes nothing.
C5_SecondCreateRefused ==
    \A t \in Threads :
        /\ Done(t, "create_local_node") /\ DirExists(call[t].path)
        /\ Sequential(t) /\ Before(t).op = "create_local_node"
        => /\ ret[t] = Err(AlreadyInitialized)
           /\ file[call[t].path] = Before(t).file
           /\ file[call[t].path].exists
C5_Witness ==
    \E t \in Threads :
        /\ Done(t, "create_local_node") /\ DirExists(call[t].path)
        /\ Sequential(t) /\ Before(t).op = "create_local_node"
        /\ Before(t).ret.kind = "ok"
        /\ ret[t] = Err(AlreadyInitialized)
        /\ FromBytes(file[call[t].path].bytes).ok

\* C6: on a node directory, node_is_initialized directly after reset_node
\* returns false and directly after create_local_node returns true, whatever
\* the state before; create_local_node takes a directory without keypair file
\* to one with it (and returns Ok where the file can be read back), reset_node
\* takes any directory to one without it; and node_is_initialized returns
\* exactly whether the file exists.
C6_Lifecycle ==
    \A t \in Threads :
        /\ Done(t, "node_is_initialized") /\ DirExists(call[t].path) /\ Sequential(t)
           => /\ Before(t).op = "reset_node" => ret[t] = OkBool(FALSE)
              /\ Before(t).op = "create_local_node" => ret[t] = OkBool(TRUE)
        /\ Done(t, "node_is_initialized") /\ Solo(t)
           => ret[t] = OkBool(file[call[t].path].exists)
        /\ Done(t, "create_local_node") /\ DirExists(call[t].path) /\ Solo(t)
           => /\ file[call[t].path].exists
              /\ ~pre[t].file[call[t].path].exists /\ Readable(call[t].path)
                 => ret[t].kind = "ok"
        /\ Done(t, "reset_node") /\ Solo(t)
           => ~file[call[t].path].exists /\ ret[t] = OkUnit
C6_Witness ==
    \E t \in Threads :
        /\ Done(t, "node_is_initialized") /\ DirExists(call[t].path) /\ Sequential(t)
        /\ Before(t).op = "create_local_node"
        /\ Before(t).ret.kind = "ok"
        /\ ret[t] = OkBool(TRUE)

\* C7: get_public_key or get_node_id directly after a successful
\* generate_keypair on the same path returns the hex string generate_keypair
\* returned; and in every state the two functions return the same value for
\* every path.
C7_GenerateThenGet ==
    /\ \A t \in Threads :
          /\ pc[t] = "done" /\ IsRead(call[t].op) /\ Sequential(t)
          /\ Before(t).op = "generate_keypair" /\ Before(t).ret.kind = "ok"
          => ret[t] = Before(t).ret
    /\ \A path \in Paths : get_public_key(file, path) = get_node_id(file, path)
C7_Witness ==
    \E t \in Threads :
        /\ Done(t, "get_node_id") /\ Sequential(t)
        /\ Before(t).op = "generate_keypair" /\ Before(t).ret.kind = "ok"
        /\ ret[t].kind = "ok"
        /\ ret[t].hex = PublicKeyHex(FromBytes(file[call[t].path].bytes).kp)

\* C8: once add_peer_connection(from, to, w) has acted, list_peers(from)
\* contains to, in that state and every later one; list_peers of an id no
\* add_peer_connection has named is the empty sequence, and list_peers never
\* returns anything but a sequence.
Connected == {i \in 1..Len(trace) : trace[i].ev = "mesh"}
Referenced == {trace[i].from : i \in Connected} \cup {trace[i].to : i \in Connected}
C8_NeighborStays ==
    /\ \A i \in Connected : trace[i].to \in Range(list_peers(ctx, trace[i].from).list)
    /\ \A p \in PeerIds :
          /\ list_peers(ctx, p).kind = "vec"
          /\ p \notin Referenced => list_peers(ctx, p) = Strings(<<>>)
    /\ \A t \in Threads :
          Done(t, "list_peers") /\ call[t].from \notin Referenced => ret[t] = Strings(<<>>)
C8_Witness ==
    \E t \in Threads :
        /\ Done(t, "list_peers")
        /\ call[t].from = "A"
        /\ Connected # {}
        /\ "B" \in Range(ret[t].list)

\* C9 (as claimed): every entry of the singleton's ledger is signed by the
\* identity stored in the node directory's keypair file: whenever get_node_id
\* succeeds there, the signer of each entry is the key it returns.
SignerHex(block) == PublicKeyHex([NoKeypair EXCEPT !.public = block.signer])
C9_SignedByNodeIdentity ==
    \A block \in ctx.tangle :
        get_node_id(file, NodeDir).kind = "ok"
        => SignerHex(block) = get_node_id(file, NodeDir).hex

\* C10: get_public_key and get_node_id, called (overlapping no other call)
\* when the keypair file is absent, return Err("IO error ...") and leave it
\* absent; called when the file is one generate_keypair wrote (and can be
\* read), they return Ok.
C10_ReadNeedsFile ==
    \A t \in Threads :
        pc[t] = "done" /\ IsRead(call[t].op) /\ Solo(t)
        => /\ ~pre[t].file[call[t].path].exists
              => ret[t] = Err(IoError) /\ ~file[call[t].path].exists
           /\ pre[t].file[call[t].path].exists /\ pre[t].file[call[t].path] # GarbageFile
              /\ Readable(call[t].path)
              => ret[t].kind = "ok" /\ file = pre[t].file
C10_Witness ==
    \E t \in Threads :
        /\ Done(t, "get_public_key") /\ Solo(t)
        /\ call[t].path = NodeDir
        /\ ~pre[t].file[NodeDir].exists
        /\ ret[t] = Err(IoError)

\* A thread is inside the context from the moment lock() returns until its
\* method returns.
InContext(t) == pc[t] \in {"cb_deser", "cb_insert", "cb_store", "cb_propagate", "ts", "apc", "lp"}
InCall(t) == ~AtRest(t)

\* C11: a thread holds the lock exactly while it is inside one of the four
\* methods, on every path through them (the early return of create_block
\* included); at most one thread is inside the context at any time; and
\* whenever no call is in progress the lock is free.
C11_LockHeldAndReleased ==
    /\ \A t \in Threads : InContext(t) <=> t \in lock
    /\ Cardinality(lock) <= 1
    /\ Cardinality({t \in Threads : InContext(t)}) <= 1
    /\ AllAtRest => lock = {}
C11_Witness ==
    \E t, u \in Threads :
        /\ Done(t, "create_block") /\ ~ValidPayload(call[t].data)
        /\ ret[t] = StringError(DeserError)
        /\ pc[u] = "lock"
        /\ lock = {}

\* C12: under fair scheduling every call of a singleton wrapper returns:
\* a thread that has made a call is eventually back at rest with its result,
\* whatever happened in the other threads' calls.
C12_EveryCallReturns ==
    \A t \in Threads : InCall(t) ~> pc[t] = "done"
C12_Witness ==
    \E t, u \in Threads :
        /\ Done(t, "create_block") /\ ~ValidPayload(call[t].data)
        /\ Done(u, "create_block") /\ ValidPayload(call[u].data) /\ ~loc[u].accept
        /\ ~pre[t].alone \/ ~pre[u].alone

\* C13 (as claimed): at the moment a block is handed to the transport it is
\* an entry of the ledger; its insert came directly before, in the same call;
\* and the id create_block returns is the id of the block it propagated.
C13_PropagatedIsInLedger ==
    /\ \A t \in Threads : pc[t] = "cb_propagate" => loc[t].block \in ctx.tangle
    /\ \A i \in 1..Len(trace) :
          trace[i].ev = "propagate"
          => i > 1 /\ trace[i - 1].ev = "insert" /\ trace[i - 1].id = trace[i].id
    /\ \A t \in Threads :
          Done(t, "create_block") /\ ValidPayload(call[t].data)
          => ret[t].hex = loc[t].block.id /\ loc[t].block \in Range(ctx.gossip_engine)

\* C14: when the ledger rejects the insert, the ledger is what it was before
\* the insert, create_block returns the block's id (not an error text), the
\* call returns with the lock released, and (for a call overlapping no other)
\* the ledger and its size are what they were when the call was made.
C14_RejectionSwallowed ==
    \A t \in Threads :
        /\ pc[t] = "cb_propagate" /\ ~loc[t].accept => ctx.tangle = loc[t].tangle
        /\ Done(t, "create_block") /\ ValidPayload(call[t].data) /\ ~loc[t].accept
           => /\ IsIdString(ret[t])
              /\ ret[t] = StringId(loc[t].block.id)
              /\ t \notin lock
              /\ Solo(t) => /\ ctx.tangle = pre[t].ctx.tangle
                            /\ tangle_size(ctx) = tangle_size(pre[t].ctx)
C14_Witness ==
    \E t \in Threads :
        /\ Done(t, "create_block") /\ ValidPayload(call[t].data) /\ ~loc[t].accept
        /\ Solo(t)
        /\ loc[t].block \notin ctx.tangle
        /\ TangleLen(pre[t].ctx.tangle) = 1
        /\ IsIdString(ret[t])

\* What thread t's call in progress (or its last call) has inserted,
\* propagated or connected.
EventsOf(t) == {i \in 1..Len(trace) : i > pre[t].events /\ trace[i].t = t}
\* The identity is the one the context was constructed with (the first call
\* constructs it).
SameIdentity(t) == pre[t].ctx.keypair # NoKeypair => ctx.keypair = pre[t].ctx.keypair

\* C17: a get_tangle_size or list_peers call inserts, propagates and connects
\* nothing, and (overlapping no other call) leaves ledger, topology, identity
\* and transport as they were and returns what the context holds; an
\* add_peer_connection call only connects, leaving ledger, identity and
\* transport as they were.
C17_ReadsArePure ==
    \A t \in Threads :
        /\ pc[t] = "done" /\ call[t].op \in {"get_tangle_size", "list_peers"}
           => /\ EventsOf(t) = {}
              /\ Solo(t) => /\ ctx.tangle = pre[t].ctx.tangle
                            /\ ctx.mesh = pre[t].ctx.mesh
                            /\ ctx.gossip_engine = pre[t].ctx.gossip_engine
                            /\ SameIdentity(t)
                            /\ call[t].op = "get_tangle_size" => ret[t] = tangle_size(ctx)
                            /\ call[t].op = "list_peers" => ret[t] = list_peers(ctx, call[t].from)
        /\ Done(t, "add_peer_connection")
           => /\ \A i \in EventsOf(t) : trace[i].ev = "mesh"
              /\ Solo(t) => /\ ctx.tangle = pre[t].ctx.tangle
                            /\ TangleLen(ctx.tangle) = TangleLen(pre[t].ctx.tangle)
                            /\ ctx.gossip_engine = pre[t].ctx.gossip_engine
                            /\ SameIdentity(t)
C17_Witness ==
    \E t \in Threads :
        /\ Done(t, "get_tangle_size") /\ Solo(t)
        /\ ret[t] = Size(1)
        /\ ctx = pre[t].ctx
        /\ Len(ctx.gossip_engine) = 1

\* C18: EcoBlockContext::new() runs at most once, at the first call of a
\* wrapper, however the first calls overlap: one key is ever drawn for the
\* context, the identity stays that key, every entry is signed with it, and
\* every accepted insert of every thread is in the one ledger.
C18_OneContext ==
    /\ nextKey - 1 <= 1
    /\ ctxInit <=> nextKey - 1 = 1
    /\ ctxInit <=> \E t \in Threads : pc[t] # "idle"
    /\ ctxInit => ctx.keypair = KeypairOf(1)
    /\ \A b \in ctx.tangle \cup Range(ctx.gossip_engine) : b.signer = PublicOf(1)
    /\ \A i \in Inserts : trace[i].accept => trace[i].id \in {b.id : b \in ctx.tangle}
C18_Witness ==
    \E t, u \in Threads :
        /\ t # u
        /\ Done(t, "create_block") /\ loc[t].accept
        /\ Done(u, "get_tangle_size") /\ ret[u] = Size(1)
        /\ ~pre[t].alone \/ ~pre[u].alone
        /\ ctx.keypair = KeypairOf(1)

\* C20: in every step of every behaviour the ledger keeps its entries and
\* gains at most one; it changes only in the insert of a create_block call;
\* and no step of a bootstrap call (reset_node included) changes the
\* singleton's ledger, topology, identity or transport.
BootstrapOps == PathOps \cup {"initialize_tangle"}
C20_AppendOnly ==
    [][/\ ctx.tangle \subseteq ctx'.tangle
       /\ TangleLen(ctx'.tangle) <= TangleLen(ctx.tangle) + 1
       /\ ctx'.tangle # ctx.tangle
          => \E t \in Threads : /\ call[t].op = "create_block"
                                /\ pc[t] = "cb_store" /\ pc'[t] = "cb_propagate"
       /\ (\E t \in Threads : call'[t].op \in BootstrapOps /\ pc'[t] # pc[t])
          => ctx' = ctx /\ ctxInit' = ctxInit]_vars
C20_Witness ==
    \E t \in Threads :
        /\ Done(t, "reset_node") /\ Solo(t)
        /\ pre[t].file[call[t].path].exists /\ ~file[call[t].path].exists
        /\ TangleLen(ctx.tangle) = 1
        /\ ctx = pre[t].ctx

\* C15: a generate_keypair call (overlapping no other call, on a directory
\* whose files can be read) succeeds whether or not a keypair file is there,
\* leaves the file holding the keypair it generated, and get_public_key then
\* gives the key it returned, which is not the key of the file it replaced;
\* no function but create_local_node returns AlreadyInitialized, and on a
\* directory holding a readable keypair file every other function succeeds
\* while create_local_node refuses and writes nothing.
HasKeypair(fs, path) == get_public_key(fs, path).kind = "ok"
C15_GenerateOverwrites ==
    \A t \in Threads :
        /\ Done(t, "generate_keypair") /\ Solo(t)
           /\ DirExists(call[t].path) /\ Readable(call[t].path)
           => /\ ret[t].kind = "ok"
              /\ file[call[t].path] = FileOf(ToBytes(loc[t].kp))
              /\ file[call[t].path] # pre[t].file[call[t].path]
              /\ get_public_key(file, call[t].path) = ret[t]
              /\ HasKeypair(pre[t].file, call[t].path)
                 => get_public_key(file, call[t].path) # get_public_key(pre[t].file, call[t].path)
        /\ pc[t] = "done" /\ ret[t] = Err(AlreadyInitialized)
           => call[t].op = "create_local_node"
        /\ pc[t] = "done" /\ Solo(t) /\ call[t].path \in Paths
           /\ HasKeypair(pre[t].file, call[t].path)
           => IF call[t].op = "create_local_node"
              THEN ret[t] = Err(AlreadyInitialized) /\ file = pre[t].file
              ELSE ret[t].kind = "ok"
C15_Witness ==
    \E t \in Threads :
        /\ Done(t, "generate_keypair") /\ Solo(t)
        /\ HasKeypair(pre[t].file, call[t].path)
        /\ ret[t].kind = "ok"
        /\ get_public_key(file, call[t].path) = ret[t]
        /\ ret[t] # get_public_key(pre[t].file, call[t].path)

\* C16: reset_node returns Ok(()) in every case; a call overlapping no other
\* leaves no keypair file, and changes nothing when there was none; a second
\* reset_node directly after a first returns the same and leaves the same
\* state; node_is_initialized returns Ok in every case, and (overlapping no
\* other call) exactly whether the file exists, writing nothing.
C16_ResetIdempotent ==
    \A t \in Threads :
        /\ Done(t, "reset_node") => ret[t] = OkUnit
        /\ Done(t, "reset_node") /\ Solo(t)
           => /\ ~file[call[t].path].exists
              /\ ~pre[t].file[call[t].path].exists => file = pre[t].file
        /\ Done(t, "reset_node") /\ Sequential(t) /\ Before(t).op = "reset_node"
           => /\ ret[t] = Before(t).ret
              /\ file[call[t].path] = Before(t).file
              /\ file = pre[t].file
        /\ Done(t, "node_is_initialized")
           => /\ ret[t].kind = "ok"
              /\ Solo(t) => ret[t] = OkBool(file[call[t].path].exists) /\ file = pre[t].file
C16_Witness ==
    \E t \in Threads :
        /\ Done(t, "reset_node") /\ Sequential(t) /\ Before(t).op = "reset_node"
        /\ call[t].path = NodeDir
        /\ ret[t] = OkUnit
        /\ ~file[NodeDir].exists

\* C19 (as claimed): a create_local_node call (overlapping no other call)
\* that returns an error leaves the keypair file as it was when the call was
\* made, and one that returns Ok(id) leaves a keypair file whose public key
\* is id.
C19_CreateIsAtomic ==
    \A t \in Threads :
        Done(t, "create_local_node") /\ Solo(t)
        => /\ ret[t].kind = "err" => file[call[t].path] = pre[t].file[call[t].path]
           /\ ret[t].kind = "ok"
              => /\ file[call[t].path].exists
                 /\ FromBytes(file[call[t].path].bytes).ok
                 /\ ret[t].hex = PublicKeyHex(FromBytes(file[call[t].path].bytes).kp)

====
